---- MODULE Spec2Model ----
(***************************************************************************)
(* WinShield: a model of the scanner (winshield_scanner.py) and of the     *)
(* downloader (winshield_downloader.py).                                   *)
(*                                                                         *)
(* Identifiers (KB ids, month ids, CVE ids) are small naturals; Python's   *)
(* sorted() on them is the numeric order.  The value 0 stands for a falsy  *)
(* value (an empty string or null) where the code tests truthiness.        *)
(***************************************************************************)
EXTENDS Integers, Sequences, FiniteSets, TLC

\* ------------------------------------------------------------------ bounds

\* Number of distinct update identifiers.
MaxKb == 3

\* Largest number of supersedes edges in a set of update records.
MaxEdges == 2

KBs == 1..MaxKb

\* ------------------------------------------------------------------ state

VARIABLES
    \* scanner: compute_supersedence, main (correlation), print_kb_table
    kb_entries,        \* finalized records: KB -> [Supersedes, UpdateType]
    installed_kbs,     \* InstalledSet
    pc,                \* position in main / compute_supersedence
    roots_left,        \* installed roots the outer for-loop has not yet taken
    root,              \* root of the current walk (0: none)
    stack,             \* explicit stack of the current walk
    seen,              \* per-root visited set
    logical_present,   \* LogicalPresenceSet under construction
    superseded_by,     \* KB -> set of roots (dict of sets)
    ret_superseded_by, \* returned dict: KB -> sorted list of roots
    missing,           \* sorted list of missing KBs
    table,             \* rows printed by print_kb_table, in order
    pushes,            \* ghost: pushes of each id in the current walk
    pops               \* ghost: pops in the current walk

supVars == <<kb_entries, installed_kbs, pc, roots_left, root, stack, seen,
             logical_present, superseded_by, ret_superseded_by, missing,
             table, pushes, pops>>

VARIABLES
    \* scanner: build_month_ids_from_lcu
    baseline,          \* [IsAdmin, LcuMonthId, MsrcLatestMonthId]
    clock,             \* datetime.now(UTC)
    max_months,        \* the max_months argument
    m_pc,              \* position in build_month_ids_from_lcu
    m_start,           \* start
    m_end,             \* end
    m_year,            \* year
    m_month,           \* month
    month_ids          \* month_ids

monthVars == <<baseline, clock, max_months, m_pc, m_start, m_end, m_year,
               m_month, month_ids>>

VARIABLES
    \* scanner: merge_kb_entries and the finalization in main
    merged,            \* the accumulator: KB -> [KB, Months, Cves, Supersedes]
    final_entries,     \* kb_entries after finalization, by KB
    g_pc,              \* "merging" or "finalized"
    merges,            \* number of partial records handed to the merger
    fed                \* ghost: KB -> field -> every value fed for that KB

mergeVars == <<merged, final_entries, g_pc, merges, fed>>

VARIABLES
    \* downloader: score_candidate, choose_best_candidate
    kb_id,             \* the target identifier
    constraints,       \* BaselineConstraints
    candidates,        \* the catalog candidates, in catalog order
    score,             \* the value score_candidate returned
    best,              \* choose_best_candidate's first result (None: <<>>)
    reason,            \* choose_best_candidate's second result (None: <<>>)
    d_pc               \* position in the downloader

downVars == <<kb_id, constraints, candidates, score, best, reason, d_pc>>

VARIABLES
    \* a second call of compute_supersedence on the same arguments
    runs,              \* which call is running (1 or 2)
    first_present,     \* the first call's logical_present
    first_by,          \* the first call's returned superseded_by
    first_root         \* the root the first call walked last

reVars == <<runs, first_present, first_by, first_root>>

VARIABLES
    \* scanner: main and run_powershell_script
    s_pc,              \* position in main
    scan_baseline,     \* the baseline facts main reads (None until collected)
    requested,         \* month_ids as main holds them
    chunks,            \* chunk_list(month_ids, 3)
    queried,           \* the chunks the adapter has answered, in order
    months_with_entries, \* months_with_entries
    any_merged,        \* whether merged holds a record
    result_file,       \* SCAN_RESULT_PATH: <<>> when absent, else <<document>>
    exit_code,         \* None while running, then <<status>>
    file_before,       \* ghost: what SCAN_RESULT_PATH held at the start
    collected          \* ghost: every collector run, in order

scanVars == <<s_pc, scan_baseline, requested, chunks, queried,
              months_with_entries, any_merged, result_file, exit_code,
              file_before, collected>>

VARIABLES
    \* downloader: main
    missing_items,     \* missing_items (the identifiers, in menu order)
    raw,               \* what the operator typed (None until asked)
    requests,          \* every HTTP call made, in order, with its status
    urls,              \* extract_download_urls(dialog_html)
    download_url,      \* the url handed to download_file (None until then)
    downloaded,        \* the files written under DOWNLOADS_DIR
    return_code        \* None while running, then <<status>>

runVars == <<missing_items, raw, requests, urls, download_url, downloaded,
             return_code>>

vars == <<supVars, monthVars, mergeVars, downVars, reVars, scanVars, runVars>>

\* the state of the other components
notSup == <<monthVars, mergeVars, downVars, reVars, scanVars, runVars>>
notMonth == <<supVars, mergeVars, downVars, reVars, scanVars, runVars>>
notMerge == <<supVars, monthVars, downVars, reVars, scanVars, runVars>>
notDown == <<supVars, monthVars, mergeVars, reVars, scanVars, runVars>>
notScan == <<supVars, monthVars, mergeVars, downVars, reVars, runVars>>
notRun == <<supVars, monthVars, mergeVars, reVars, scanVars>>

\* ---------------------------------------------------------------- helpers

Range(s) == {s[i] : i \in DOMAIN s}

MinOf(S) == CHOOSE m \in S : \A x \in S : m <= x

\* Python sorted(set): the ascending list of the members of S.
RECURSIVE SortedSeq(_)
SortedSeq(S) ==
    IF S = {} THEN <<>>
    ELSE <<MinOf(S)>> \o SortedSeq(S \ {MinOf(S)})

\* Every order in which Python may iterate over the set S.
Orders(S) ==
    {o \in [1..Cardinality(S) -> S] : \A i, j \in DOMAIN o : o[i] = o[j] => i = j}

\* dict.get(key, default)
DictGet(d, k, default) == IF k \in DOMAIN d THEN d[k] ELSE default

\* ------------------------------------------------- compute_supersedence

\* supersedes_map: built only for records that list at least one old id.
supersedes_map ==
    [k \in {r \in DOMAIN kb_entries : Len(kb_entries[r].Supersedes) > 0}
        |-> Range(kb_entries[k].Supersedes)]

\* logical_present = set(installed_kbs)
EmptyPresence(installed) == {}
InitialPresence(installed) == installed

\* the root recorded in superseded_by for a node reached in root's walk
AttributeCurrent(walk_root, current) == current
AttributedRoot(walk_root, current) == walk_root

\* "if old not in seen": whether a reached node is pushed
PushAlways(old, seen_set) == TRUE
PushNever(old, seen_set) == FALSE
ShouldPush(old, seen_set) == old \notin seen_set

\* seen = {root}: the visited set starts anew with every root
SharedSeen(r, old_seen) == old_seen \cup {r}
FreshSeen(r, old_seen) == {r}

\* dict.setdefault(k, set()).add(v)
SetDefaultAdd(d, k, v) ==
    [x \in DOMAIN d \cup {k} |-> (IF x \in DOMAIN d THEN d[x] ELSE {}) \cup
                                  (IF x = k THEN {v} ELSE {})]

\* One iteration of "for old in supersedes_map.get(current, set())".
VisitOld(st, old, walk_root, current) ==
    LET push == ShouldPush(old, st.seen) IN
    [lp     |-> st.lp \cup {old},
     sb     |-> SetDefaultAdd(st.sb, old, AttributedRoot(walk_root, current)),
     seen   |-> IF push THEN st.seen \cup {old} ELSE st.seen,
     stack  |-> IF push THEN Append(st.stack, old) ELSE st.stack,
     pushes |-> IF push THEN [st.pushes EXCEPT ![old] = @ + 1] ELSE st.pushes]

\* The whole inner for-loop, the set being iterated in the order given.
RECURSIVE VisitAll(_, _, _, _)
VisitAll(st, order, walk_root, current) ==
    IF order = <<>> THEN st
    ELSE VisitAll(VisitOld(st, Head(order), walk_root, current), Tail(order),
                  walk_root, current)

NoPushes == [k \in KBs |-> 0]

\* "for root in installed_kbs": the next root; stack = [root], seen = {root}.
StartRoot ==
    /\ pc = "loop"
    /\ stack = <<>>
    /\ \E r \in roots_left :
        /\ root' = r
        /\ roots_left' = roots_left \ {r}
        /\ stack' = <<r>>
        /\ seen' = FreshSeen(r, seen)
        /\ pushes' = [NoPushes EXCEPT ![r] = 1]
    /\ pops' = 0
    /\ UNCHANGED <<kb_entries, installed_kbs, pc, logical_present,
                   superseded_by, ret_superseded_by, missing, table, notSup>>

\* One pass of "while stack": pop, then visit every superseded neighbour.
PopStep ==
    /\ pc = "loop"
    /\ stack # <<>>
    /\ LET current == stack[Len(stack)]
           rest == SubSeq(stack, 1, Len(stack) - 1)
           st0 == [lp |-> logical_present, sb |-> superseded_by, seen |-> seen,
                   stack |-> rest, pushes |-> pushes]
       IN \E order \in Orders(DictGet(supersedes_map, current, {})) :
            LET st == VisitAll(st0, order, root, current) IN
            /\ logical_present' = st.lp
            /\ superseded_by' = st.sb
            /\ seen' = st.seen
            /\ stack' = st.stack
            /\ pushes' = st.pushes
    /\ pops' = pops + 1
    /\ UNCHANGED <<kb_entries, installed_kbs, pc, roots_left, root,
                   ret_superseded_by, missing, table, notSup>>

\* return logical_present, {k: sorted(v) for k, v in superseded_by.items()}
Return ==
    /\ pc = "loop"
    /\ stack = <<>>
    /\ roots_left = {}
    /\ pc' = "returned"
    /\ ret_superseded_by' =
           [k \in DOMAIN superseded_by |-> SortedSeq(superseded_by[k])]
    /\ UNCHANGED <<kb_entries, installed_kbs, roots_left, root, stack, seen,
                   logical_present, superseded_by, missing, table, pushes, pops,
                   notSup>>

\* The caller keeps the first result and calls compute_supersedence again
\* with the same records and the same installed set (lines 139-140 anew).
Recompute ==
    /\ pc = "returned"
    /\ runs = 1
    /\ runs' = 2
    /\ first_present' = logical_present
    /\ first_by' = ret_superseded_by
    /\ first_root' = root
    /\ pc' = "loop"
    /\ roots_left' = installed_kbs
    /\ root' = 0
    /\ stack' = <<>>
    /\ seen' = {}
    /\ logical_present' = InitialPresence(installed_kbs)
    /\ superseded_by' = <<>>
    /\ ret_superseded_by' = <<>>
    /\ pushes' = NoPushes
    /\ pops' = 0
    /\ UNCHANGED <<kb_entries, installed_kbs, missing, table, monthVars,
                   mergeVars, downVars, scanVars, runVars>>

\* ------------------------------------------------------ main: missing set

\* expected = {e["KB"] for e in kb_entries}
expected == DOMAIN kb_entries

\* missing = sorted(expected - logical_present)
ComputeMissing ==
    /\ pc = "returned"
    /\ missing' = SortedSeq(expected \ logical_present)
    /\ pc' = "correlated"
    /\ UNCHANGED <<kb_entries, installed_kbs, roots_left, root, stack, seen,
                   logical_present, superseded_by, ret_superseded_by, table,
                   pushes, pops, notSup>>

\* ------------------------------------------------------------ print_kb_table

\* kb_index: the records that bear an identifier
kb_index == [k \in {r \in DOMAIN kb_entries : r # 0} |-> kb_entries[k]]

\* all_kbs = sorted(set(kb_index) | set(installed_kbs) | set(logical_present_kbs))
all_kbs == SortedSeq(DOMAIN kb_index \cup installed_kbs \cup logical_present)

\* the stand-in record of an identifier that has no canonical record
UnmappedEntry(kb) ==
    [Supersedes |-> <<>>, UpdateType |-> "Unmapped"]

\* the status cell, by precedence
StatusLogicalFirst(kb) ==
    IF kb \in logical_present
    THEN [Status |-> "Superseded", By |-> DictGet(ret_superseded_by, kb, <<>>)]
    ELSE IF kb \in installed_kbs THEN [Status |-> "Installed", By |-> <<>>]
    ELSE [Status |-> "Missing", By |-> <<>>]
StatusOf(kb) ==
    IF kb \in installed_kbs THEN [Status |-> "Installed", By |-> <<>>]
    ELSE IF kb \in logical_present
    THEN [Status |-> "Superseded", By |-> DictGet(ret_superseded_by, kb, <<>>)]
    ELSE [Status |-> "Missing", By |-> <<>>]

\* the first printed line of an identifier's row group
RowOf(kb) ==
    LET entry == DictGet(kb_index, kb, UnmappedEntry(kb))
        st == StatusOf(kb)
    IN [KB |-> kb, Type |-> entry.UpdateType, Status |-> st.Status, By |-> st.By]

PrintKbTable ==
    /\ pc = "correlated"
    /\ table' = [i \in 1..Len(all_kbs) |-> RowOf(all_kbs[i])]
    /\ pc' = "reported"
    /\ UNCHANGED <<kb_entries, installed_kbs, roots_left, root, stack, seen,
                   logical_present, superseded_by, ret_superseded_by, missing,
                   pushes, pops, notSup>>

\* ------------------------------------------- the correlation specification

\* e["UpdateType"] = "Superseding" if e["Supersedes"] else "Standalone"
UpdateTypeOf(supersedes) ==
    IF Len(supersedes) > 0 THEN "Superseding" ELSE "Standalone"

\* Finalized records over KBs with at most MaxEdges supersedes edges, and any
\* installed set (installed identifiers need not have a record).
SupStart ==
    /\ \E recs \in SUBSET KBs :
         \E edges \in SUBSET (recs \X KBs) :
            /\ Cardinality(edges) <= MaxEdges
            /\ kb_entries =
                  [k \in recs |->
                     LET sup == SortedSeq({o \in KBs : <<k, o>> \in edges})
                     IN [Supersedes |-> sup, UpdateType |-> UpdateTypeOf(sup)]]
    /\ installed_kbs \in SUBSET KBs
    /\ pc = "loop"
    /\ roots_left = installed_kbs
    /\ root = 0
    /\ stack = <<>>
    /\ seen = {}
    /\ logical_present = InitialPresence(installed_kbs)
    /\ superseded_by = <<>>
    /\ ret_superseded_by = <<>>
    /\ missing = <<>>
    /\ table = <<>>
    /\ pushes = NoPushes
    /\ pops = 0

SupIdle ==
    /\ kb_entries = <<>>
    /\ installed_kbs = {}
    /\ pc = "idle"
    /\ roots_left = {}
    /\ root = 0
    /\ stack = <<>>
    /\ seen = {}
    /\ logical_present = {}
    /\ superseded_by = <<>>
    /\ ret_superseded_by = <<>>
    /\ missing = <<>>
    /\ table = <<>>
    /\ pushes = NoPushes
    /\ pops = 0

ReIdle ==
    /\ runs = 1
    /\ first_present = {}
    /\ first_by = <<>>
    /\ first_root = 0

RecomputeNext ==
    \/ StartRoot
    \/ PopStep
    \/ Return
    \/ Recompute

SupNext ==
    \/ StartRoot
    \/ PopStep
    \/ Return
    \/ ComputeMissing
    \/ PrintKbTable

\* ------------------------------------------------ build_month_ids_from_lcu

\* Largest max_months tried besides the default.
MaxWindow == 3

\* The calendar years of the anchors span 2023 .. 2023 + MaxYearSpan.
MaxYearSpan == 1

\* def build_month_ids_from_lcu(baseline, max_months=48)
DefaultMaxMonths == 48

Years == 2023..(2023 + MaxYearSpan)

\* %b: the abbreviated month names
MonthAbbr == <<"Jan", "Feb", "Mar", "Apr", "May", "Jun",
               "Jul", "Aug", "Sep", "Oct", "Nov", "Dec">>

\* A MonthId "%Y-%b" is the pair <<year, abbreviated month>>; None is <<>>.
None == <<>>
MonthIds == {<<y, MonthAbbr[m]>> : y \in Years, m \in 1..12}

\* A datetime whose day is 1, as an ordinal: tod is 0 at midnight and 1 when
\* a time of day is left in it (datetime.now(UTC).replace(day=1)).
DT(y, m, tod) == (y * 12 + (m - 1)) * 2 + tod
YearOf(dt) == (dt \div 2) \div 12
MonthOf(dt) == ((dt \div 2) % 12) + 1

\* datetime.strptime(id, "%Y-%b").replace(day=1, tzinfo=UTC)
Strptime(id) ==
    DT(id[1], CHOOSE m \in 1..12 : MonthAbbr[m] = id[2], 0)

\* current.strftime("%Y-%b")
Strftime(dt) == <<YearOf(dt), MonthAbbr[MonthOf(dt)]>>

\* month += 1; if month == 13: month = 1; year += 1
NextMonthNoCarry(year, month) ==
    IF month + 1 = 13 THEN <<year, 1>> ELSE <<year, month + 1>>
NextMonth(year, month) ==
    IF month + 1 = 13 THEN <<year + 1, 1>> ELSE <<year, month + 1>>

\* Lines 65-84: the two baseline checks, the anchors, the clamp.
MonthEntry ==
    /\ m_pc = "entry"
    /\ IF ~baseline.IsAdmin \/ baseline.LcuMonthId = None
       THEN /\ m_pc' = "error"
            /\ UNCHANGED <<m_start, m_end, m_year, m_month>>
       ELSE LET end == IF baseline.MsrcLatestMonthId # None
                       THEN Strptime(baseline.MsrcLatestMonthId)
                       ELSE clock
                start0 == Strptime(baseline.LcuMonthId)
                start == IF start0 > end THEN end ELSE start0
            IN /\ m_end' = end
               /\ m_start' = start
               /\ m_year' = YearOf(start)
               /\ m_month' = MonthOf(start)
               /\ m_pc' = "loop"
    /\ month_ids' = <<>>
    /\ UNCHANGED <<baseline, clock, max_months, notMonth>>

\* One pass of "while True" (lines 86-99).
MonthLoop ==
    /\ m_pc = "loop"
    /\ LET current == DT(m_year, m_month, 0) IN
       IF current > m_end \/ Len(month_ids) >= max_months
       THEN /\ m_pc' = "done"
            /\ UNCHANGED <<m_year, m_month, month_ids>>
       ELSE /\ month_ids' = Append(month_ids, Strftime(current))
            /\ IF current = m_end
               THEN /\ m_pc' = "done"
                    /\ UNCHANGED <<m_year, m_month>>
               ELSE /\ m_year' = NextMonth(m_year, m_month)[1]
                    /\ m_month' = NextMonth(m_year, m_month)[2]
                    /\ m_pc' = "loop"
    /\ UNCHANGED <<baseline, clock, max_months, m_start, m_end, notMonth>>

MonthStart ==
    /\ baseline \in [IsAdmin : BOOLEAN,
                     LcuMonthId : MonthIds \cup {None},
                     MsrcLatestMonthId : MonthIds \cup {None}]
    /\ clock \in {DT(y, m, tod) : y \in Years, m \in 1..12, tod \in {0, 1}}
    \* the clock is read only when the baseline names no latest month
    /\ baseline.MsrcLatestMonthId # None => clock = DT(2023, 1, 1)
    /\ max_months \in (1..MaxWindow) \cup {DefaultMaxMonths}
    /\ m_pc = "entry"
    /\ m_start = 0
    /\ m_end = 0
    /\ m_year = 0
    /\ m_month = 0
    /\ month_ids = <<>>

MonthIdle ==
    /\ baseline = [IsAdmin |-> FALSE, LcuMonthId |-> None,
                   MsrcLatestMonthId |-> None]
    /\ clock = 0
    /\ max_months = DefaultMaxMonths
    /\ m_pc = "idle"
    /\ m_start = 0
    /\ m_end = 0
    /\ m_year = 0
    /\ m_month = 0
    /\ month_ids = <<>>

MonthNext ==
    \/ MonthEntry
    \/ MonthLoop

\* ------------------------------------------------------- merge_kb_entries

\* Largest number of partial records handed to the merger in one scan.
MaxMerges == 2

\* Values of the array fields; 0 is an empty string or null.
FieldValues == {0, 1, 2}

ArraysUpTo(n) == UNION {[1..k -> FieldValues] : k \in 0..n}

\* The partial records an adapter answer may hold (KB 0: no identifier).
\* The three array fields go through the same loop; Months carries the
\* repeated values, Months and Supersedes the falsy ones.
PartialEntries ==
    [KB : {0, 1, 2}, Months : ArraysUpTo(2), Cves : {<<>>, <<1>>},
     Supersedes : ArraysUpTo(1)]

\* if value and value not in target[field]: target[field].append(value)
AppendNew(target_list, value) ==
    IF value # 0 /\ value \notin Range(target_list)
    THEN Append(target_list, value)
    ELSE target_list

\* for value in entry.get(field) or []: ...
RECURSIVE ExtendNew(_, _)
ExtendNew(target_list, values) ==
    IF values = <<>> THEN target_list
    ELSE ExtendNew(AppendNew(target_list, Head(values)), Tail(values))

\* the three fields of one incoming record merged into its target
MergeOverwrite(target, entry) ==
    [KB |-> target.KB,
     Months |-> ExtendNew(<<>>, entry.Months),
     Cves |-> ExtendNew(<<>>, entry.Cves),
     Supersedes |-> ExtendNew(<<>>, entry.Supersedes)]
MergeFields(target, entry) ==
    [KB |-> target.KB,
     Months |-> ExtendNew(target.Months, entry.Months),
     Cves |-> ExtendNew(target.Cves, entry.Cves),
     Supersedes |-> ExtendNew(target.Supersedes, entry.Supersedes)]

\* existing.setdefault(kb_id, {"KB": kb_id, "Months": [], ...})
NewTarget(kb) ==
    [KB |-> kb, Months |-> <<>>, Cves |-> <<>>, Supersedes |-> <<>>]

\* ghost: every value the partial records of one identifier carried
FedAdd(f, entry) ==
    LET old == IF entry.KB \in DOMAIN f THEN f[entry.KB]
               ELSE [Months |-> {}, Cves |-> {}, Supersedes |-> {}]
        new == [Months |-> old.Months \cup Range(entry.Months),
                Cves |-> old.Cves \cup Range(entry.Cves),
                Supersedes |-> old.Supersedes \cup Range(entry.Supersedes)]
    IN [k \in DOMAIN f \cup {entry.KB} |-> IF k = entry.KB THEN new ELSE f[k]]

\* One pass of "for entry in incoming" (lines 111-124).
MergeEntry ==
    /\ g_pc = "merging"
    /\ merges < MaxMerges
    /\ \E entry \in PartialEntries :
         IF entry.KB = 0
         THEN UNCHANGED <<merged, fed>>
         ELSE /\ merged' =
                   [k \in DOMAIN merged \cup {entry.KB} |->
                      IF k = entry.KB
                      THEN MergeFields(DictGet(merged, k, NewTarget(k)), entry)
                      ELSE merged[k]]
              /\ fed' = FedAdd(fed, entry)
    /\ merges' = merges + 1
    /\ UNCHANGED <<final_entries, g_pc, notMerge>>

\* main, lines 280-282: nothing was merged
NoKbData ==
    /\ g_pc = "merging"
    /\ DOMAIN merged = {}
    /\ g_pc' = "nodata"
    /\ UNCHANGED <<merged, final_entries, merges, fed, notMerge>>

\* main, lines 284-290: sorted(set(...)) of each field, and the type
Finalize ==
    /\ g_pc = "merging"
    /\ DOMAIN merged # {}
    /\ final_entries' =
          [k \in DOMAIN merged |->
             LET sup == SortedSeq(Range(merged[k].Supersedes)) IN
             [KB |-> merged[k].KB,
              Months |-> SortedSeq(Range(merged[k].Months)),
              Cves |-> SortedSeq(Range(merged[k].Cves)),
              Supersedes |-> sup,
              UpdateType |-> UpdateTypeOf(sup)]]
    /\ g_pc' = "finalized"
    /\ UNCHANGED <<merged, merges, fed, notMerge>>

MergeStart ==
    /\ merged = <<>>
    /\ final_entries = <<>>
    /\ g_pc = "merging"
    /\ merges = 0
    /\ fed = <<>>

MergeIdle ==
    /\ merged = <<>>
    /\ final_entries = <<>>
    /\ g_pc = "idle"
    /\ merges = 0
    /\ fed = <<>>

MergeNext ==
    \/ MergeEntry
    \/ NoKbData
    \/ Finalize

\* ---------------------------------------------------------- score_candidate

\* return -10_000
Excluded == -10000

\* if best_score < 90
Confidence == 90

\* str.lower() on the words a title, an identifier or a version is made of
Lower(w) ==
    CASE w = "KB5001" -> "kb5001"
      [] w = "KB5002" -> "kb5002"
      [] w = "Windows 10" -> "windows 10"
      [] w = "Windows 11" -> "windows 11"
      [] w = "Server" -> "server"
      [] w = "ARM64-based" -> "arm64-based"
      [] w = "32-Bit" -> "32-bit"
      [] w = "22H2" -> "22h2"
      [] w = "23H2" -> "23h2"
      [] OTHER -> w

\* A title is the words it is made of, as the catalog writes them: the
\* identifier it names, the generation labels, the server marker, the
\* architecture markers, the version words, and the five digits of its first
\* "(ddddd." group ("" when it has none).
Titles ==
    [kb : {"", "KB5001", "KB5002"},
     gens : SUBSET {"Windows 10", "Windows 11"},
     server : BOOLEAN,
     archs : SUBSET {"x64-based", "ARM64-based", "x86-based", "32-Bit"},
     versions : SUBSET {"22H2", "23H2"},
     build : {"", "19045", "22631"}]

\* title = candidate.title.lower(): the substrings the scorer looks for
TitleWords(t) ==
    {Lower(w) : w \in ({t.kb} \ {""}) \cup t.gens \cup t.archs \cup t.versions
                       \cup (IF t.server THEN {"Server"} ELSE {})}

\* re.search(r"\b\d{2}h[12]\b", title)
HasYearHalf(words) == words \cap {"22h2", "23h2"} # {}

\* the values build_constraints can return
Constraints ==
    [windows_gen : {"", "windows 10", "windows 11"},
     display_version : {"", "22H2", "23H2"},
     build_major : {"", "19045"},
     catalog_arch : {"x64", "arm64", "x86"}]

\* c.windows_gen.startswith("windows") and "server" in title
ServerIgnored(words, c) == FALSE
ServerExcluded(words, c) == c.windows_gen # "" /\ "server" \in words

\* the markers whose presence excludes a title, by architecture
ArchExcluded(words, c) ==
    CASE c.catalog_arch = "x64" ->
           words \cap {"arm64-based", "x86-based", "32-bit"} # {}
      [] c.catalog_arch = "arm64" ->
           words \cap {"x64-based", "x86-based", "32-bit"} # {}
      [] c.catalog_arch = "x86" ->
           words \cap {"x64-based", "arm64-based"} # {}
      [] OTHER -> FALSE

\* the bonus of the architecture block
ArchScore(words, c) ==
    CASE c.catalog_arch = "x64" -> IF "x64-based" \in words THEN 25 ELSE 0
      [] c.catalog_arch = "arm64" -> IF "arm64-based" \in words THEN 25 ELSE 0
      [] c.catalog_arch = "x86" ->
           IF words \cap {"x86-based", "32-bit"} # {} THEN 25 ELSE 0
      [] OTHER -> 0

\* the display-version block (lines 231-236)
VersionScoreHeavy(words, c) ==
    LET dv == Lower(c.display_version) IN
    IF dv = "" THEN 0
    ELSE (IF dv \in words THEN 25 ELSE 0)
         + (IF HasYearHalf(words) /\ dv \notin words THEN -60 ELSE 0)
VersionScore(words, c) ==
    LET dv == Lower(c.display_version) IN
    IF dv = "" THEN 0
    ELSE (IF dv \in words THEN 25 ELSE 0)
         + (IF HasYearHalf(words) /\ dv \notin words THEN -15 ELSE 0)

\* the build block (lines 238-241)
BuildScore(t, c) ==
    IF c.build_major = "" \/ t.build = "" THEN 0
    ELSE IF t.build = c.build_major THEN 10 ELSE -5

\* the generation block (lines 202-208): the other generation's label
GenExcluded(words, c) ==
    \/ c.windows_gen = "windows 10" /\ "windows 11" \in words
    \/ c.windows_gen = "windows 11" /\ "windows 10" \in words

\* the bonus of the generation block
GenScore(words, c) ==
    IF c.windows_gen # "" /\ c.windows_gen \in words THEN 40 ELSE 0

score_candidate(t, target, c) ==
    LET words == TitleWords(t) IN
    IF Lower(target) \notin words THEN Excluded
    ELSE IF GenExcluded(words, c) THEN Excluded
    ELSE IF ServerExcluded(words, c) THEN Excluded
    ELSE IF ArchExcluded(words, c) THEN Excluded
    ELSE 50 + GenScore(words, c) + ArchScore(words, c) + VersionScore(words, c)
            + BuildScore(t, c)

ScoreCandidate ==
    /\ d_pc = "score"
    /\ score' = score_candidate(candidates[1].title, kb_id, constraints)
    /\ d_pc' = "scored"
    /\ UNCHANGED <<kb_id, constraints, candidates, best, reason, notDown>>

ScoreStart ==
    /\ kb_id = "KB5001"
    /\ constraints \in Constraints
    /\ \E t \in Titles : candidates = <<[update_id |-> 1, title |-> t]>>
    /\ score = 0
    /\ best = None
    /\ reason = None
    /\ d_pc = "score"

\* ---------------------------------------------------- choose_best_candidate

\* Longest candidate list a catalog search returns.
MaxCandidates == 2

\* scored = [(s, c) for s, c in scored if s >= 0]
RECURSIVE KeepNonNegative(_)
KeepNonNegative(scored) ==
    IF scored = <<>> THEN <<>>
    ELSE (IF Head(scored)[1] >= 0 THEN <<Head(scored)>> ELSE <<>>)
         \o KeepNonNegative(Tail(scored))

\* where a stable descending sort puts x among the already placed elements:
\* after every element whose score is at least x's
PlaceBeforeEqual(placed, x) ==
    Cardinality({i \in DOMAIN placed : placed[i][1] > x[1]})
PlaceAfterEqual(placed, x) ==
    Cardinality({i \in DOMAIN placed : placed[i][1] >= x[1]})

InsertAt(list, n, x) ==
    SubSeq(list, 1, n) \o <<x>> \o SubSeq(list, n + 1, Len(list))

\* scored.sort(key=lambda x: x[0], reverse=True): stable, ties keep their order
RECURSIVE SortPlaced(_, _)
SortPlaced(placed, todo) ==
    IF todo = <<>> THEN placed
    ELSE SortPlaced(InsertAt(placed, PlaceAfterEqual(placed, Head(todo)),
                             Head(todo)),
                    Tail(todo))
SortByScoreDescending(scored) == SortPlaced(<<>>, scored)

\* if best_score < 90
AmbiguousAtThreshold(best_score) == best_score <= Confidence
IsAmbiguous(best_score) == best_score < Confidence

choose_best_candidate(cands, target, c) ==
    LET scored0 == [i \in DOMAIN cands |->
                      <<score_candidate(cands[i].title, target, c), cands[i]>>]
        scored1 == KeepNonNegative(scored0)
        sorted == SortByScoreDescending(scored1)
    IN IF scored1 = <<>>
       THEN [best |-> None, reason |-> <<"NoMatch">>]
       ELSE IF IsAmbiguous(sorted[1][1])
       THEN [best |-> None, reason |-> <<"AmbiguousMatch", sorted[1][1]>>]
       ELSE [best |-> sorted[1][2], reason |-> None]

ChooseBestCandidate ==
    /\ d_pc = "choose"
    /\ LET r == choose_best_candidate(candidates, kb_id, constraints) IN
         /\ best' = r.best
         /\ reason' = r.reason
    /\ d_pc' = "chosen"
    /\ UNCHANGED <<kb_id, constraints, candidates, score, notDown>>

\* The titles a search for the target brings back, scored against a
\* Windows 10 x64 baseline with or without a known display version.
SearchTitles ==
    {t \in Titles :
        /\ t.kb \in {"", "KB5001"}
        /\ Cardinality(t.gens) <= 1
        /\ ~t.server
        /\ t.archs \in {{}, {"x64-based"}}
        /\ Cardinality(t.versions) <= 1
        /\ t.build = ""}

SearchConstraints ==
    {c \in Constraints :
        /\ c.windows_gen = "windows 10"
        /\ c.catalog_arch = "x64"
        /\ c.display_version \in {"", "22H2"}
        /\ c.build_major = ""}

ChooseStart ==
    /\ kb_id = "KB5001"
    /\ constraints \in SearchConstraints
    /\ \E n \in 0..MaxCandidates :
         \E ts \in [1..n -> SearchTitles] :
            candidates = [i \in 1..n |-> [update_id |-> i, title |-> ts[i]]]
    /\ score = 0
    /\ best = None
    /\ reason = None
    /\ d_pc = "choose"

DownIdle ==
    /\ kb_id = ""
    /\ constraints = [windows_gen |-> "", display_version |-> "",
                      build_major |-> "", catalog_arch |-> "x64"]
    /\ candidates = <<>>
    /\ score = 0
    /\ best = None
    /\ reason = None
    /\ d_pc = "idle"

ScoreNext == ScoreCandidate

ChooseNext == ChooseBestCandidate

\* ------------------------------------------------------ downloader main

\* Longest list of missing identifiers a scan result carries.
MaxMissing == 2

\* What the operator can type at "Select KB: ".
Inputs == {"", "x", "0", "1", " 2", "2", "3", "4", "²"}

\* raw.strip()
Strip(text) == IF text = " 2" THEN "2" ELSE text

\* str.isdigit(): non-empty and every character a digit (the superscript two
\* counts as a digit)
IsDigit(text) == text \in {"0", "1", "2", "3", "4", "²"}

\* int(raw): <<n>>, or <<>> when int raises ValueError
ToInt(text) ==
    CASE text = "0" -> <<0>>
      [] text = "1" -> <<1>>
      [] text = "2" -> <<2>>
      [] text = "3" -> <<3>>
      [] text = "4" -> <<4>>
      [] OTHER -> <<>>

\* the HTTP statuses a call can end with
Statuses == {200, 404, 503}

\* r.raise_for_status(): raises on 4xx and 5xx
IgnoreStatus(status) == FALSE
RaiseForStatus(status) == 400 <= status /\ status < 600

\* the titles a catalog search brings back in a run
CatalogTitles ==
    {t \in SearchTitles :
        /\ t.archs = {"x64-based"}
        /\ t.versions = {}}

\* the lists of download URLs a dialog page can hold
DialogUrls == {<<>>, <<"first.msu">>, <<"first.msu", "second.cab">>}

\* return n, or an uncaught exception
EndRun(n) ==
    /\ d_pc' = "exit"
    /\ return_code' = <<n>>

\* Lines 313-319: load the scan result, build the constraints and the list.
LoadScanResult ==
    /\ d_pc = "load"
    /\ \E is_file \in BOOLEAN, c \in SearchConstraints, n \in 0..MaxMissing :
       \E items \in [1..n -> {"KB5001", "KB5002"}] :
         IF ~is_file
         THEN EndRun(1) /\ UNCHANGED <<constraints, missing_items>>
         ELSE /\ constraints' = c
              /\ missing_items' = items
              /\ IF items = <<>> THEN EndRun(0)
                 ELSE d_pc' = "select" /\ UNCHANGED return_code
    /\ UNCHANGED <<kb_id, candidates, score, best, reason, raw, requests, urls,
                   download_url, downloaded, notRun>>

\* Lines 326-337: the operator's selection.
SelectKb ==
    /\ d_pc = "select"
    /\ \E typed \in Inputs :
         /\ raw' = <<Strip(typed)>>
         /\ IF ~IsDigit(Strip(typed)) THEN EndRun(1) /\ UNCHANGED kb_id
            ELSE IF ToInt(Strip(typed)) = <<>> THEN EndRun(1) /\ UNCHANGED kb_id
            ELSE LET idx == ToInt(Strip(typed))[1] IN
                 IF idx < 1 \/ idx > Len(missing_items)
                 THEN EndRun(1) /\ UNCHANGED kb_id
                 ELSE /\ kb_id' = missing_items[idx]
                      /\ d_pc' = "search"
                      /\ UNCHANGED return_code
    /\ UNCHANGED <<constraints, candidates, score, best, reason, missing_items,
                   requests, urls, download_url, downloaded, notRun>>

\* Lines 339-347: one search request, then the selector.
SearchCatalog ==
    /\ d_pc = "search"
    /\ \E status \in Statuses, n \in 0..MaxCandidates :
       \E ts \in [1..n -> CatalogTitles] :
         /\ requests' = Append(requests, [call |-> "search", status |-> status])
         /\ IF RaiseForStatus(status)
            THEN EndRun(1) /\ UNCHANGED <<candidates, best, reason>>
            ELSE /\ candidates' = [i \in 1..n |-> [update_id |-> i, title |-> ts[i]]]
                 /\ LET r == choose_best_candidate(candidates', kb_id, constraints) IN
                      /\ best' = r.best
                      /\ reason' = r.reason
                      /\ IF r.best = None THEN EndRun(1)
                         ELSE d_pc' = "dialog" /\ UNCHANGED return_code
    /\ UNCHANGED <<kb_id, constraints, score, missing_items, raw, urls,
                   download_url, downloaded, notRun>>

\* Lines 349-355: one download-dialog request, then the URLs of its page.
FetchDialog ==
    /\ d_pc = "dialog"
    /\ \E status \in Statuses, found \in DialogUrls :
         /\ requests' = Append(requests, [call |-> "dialog", status |-> status])
         /\ IF RaiseForStatus(status)
            THEN EndRun(1) /\ UNCHANGED urls
            ELSE /\ urls' = found
                 /\ IF found = <<>> THEN EndRun(1)
                    ELSE d_pc' = "download" /\ UNCHANGED return_code
    /\ UNCHANGED <<kb_id, constraints, candidates, score, best, reason,
                   missing_items, raw, download_url, downloaded, notRun>>

\* Lines 357-360 and download_file: one request for urls[0]; the file is
\* opened only after raise_for_status.
DownloadFile ==
    /\ d_pc = "download"
    /\ \E status \in Statuses :
         /\ requests' = Append(requests, [call |-> "download", status |-> status])
         /\ download_url' = <<urls[1]>>
         /\ IF RaiseForStatus(status)
            THEN EndRun(1) /\ UNCHANGED downloaded
            ELSE /\ downloaded' = downloaded \cup {urls[1]}
                 /\ EndRun(0)
    /\ UNCHANGED <<kb_id, constraints, candidates, score, best, reason,
                   missing_items, raw, urls, notRun>>

RunStart ==
    /\ missing_items = <<>>
    /\ raw = None
    /\ requests = <<>>
    /\ urls = <<>>
    /\ download_url = None
    /\ downloaded = {}
    /\ return_code = None

RunIdle == RunStart

RunNext ==
    \/ LoadScanResult
    \/ SelectKb
    \/ SearchCatalog
    \/ FetchDialog
    \/ DownloadFile


\* ------------------------------------------ scanner main: the scan stage

\* Longest window of months a scan asks for.
MaxScanMonths == 4

\* chunk_list(month_ids, 3)
ChunkSize == 3

\* What a collector process leaves: its exit status and its stripped stdout
\* ("": nothing, "garbage": not JSON, "json": a JSON document).
ProcessResults == [returncode : {0, 1}, stdout : {"", "garbage", "json"}]

\* run_powershell_script: "RuntimeError" when it raises, else "ok"
IgnoreReturncode(result) ==
    IF result.stdout = "" THEN "RuntimeError"
    ELSE IF result.stdout = "garbage" THEN "RuntimeError"
    ELSE "ok"
run_powershell_script(result) ==
    IF result.returncode # 0 THEN "RuntimeError"
    ELSE IF result.stdout = "" THEN "RuntimeError"
    ELSE IF result.stdout = "garbage" THEN "RuntimeError"
    ELSE "ok"

\* the baseline facts main and build_month_ids_from_lcu look at
BaselineFacts ==
    [ProductNameHint : BOOLEAN, IsAdmin : BOOLEAN, LcuMonthId : BOOLEAN]

\* chunk_list(items, size): consecutive slices of at most size items
ChunkList(items, size) ==
    [i \in 1..((Len(items) + size - 1) \div size) |->
        SubSeq(items, (i - 1) * size + 1,
               IF i * size <= Len(items) THEN i * size ELSE Len(items))]

\* the document an earlier run left (Run stands for the rest of its content)
EarlierDocument ==
    [Run |-> "earlier", MonthsRequested |-> <<1>>, MonthsWithEntries |-> <<1>>]

\* an uncaught RuntimeError, or sys.exit(1): the process ends with status 1
AbortScan ==
    /\ s_pc' = "exit"
    /\ exit_code' = <<1>>

\* Lines 239-249: the baseline collector, then the product hint.
CollectBaseline ==
    /\ s_pc = "baseline"
    /\ \E result \in ProcessResults, facts \in BaselineFacts :
         /\ collected' = Append(collected, [script |-> "baseline", result |-> result])
         /\ IF run_powershell_script(result) = "RuntimeError"
            THEN AbortScan /\ UNCHANGED scan_baseline
            ELSE /\ scan_baseline' = facts
                 /\ IF ~facts.ProductNameHint
                    THEN AbortScan
                    ELSE s_pc' = "inventory" /\ UNCHANGED exit_code
    /\ UNCHANGED <<requested, chunks, queried, months_with_entries, any_merged,
                   result_file, file_before, notScan>>

\* Lines 251-255: the inventory collector.
CollectInventory ==
    /\ s_pc = "inventory"
    /\ \E result \in ProcessResults :
         /\ collected' = Append(collected, [script |-> "inventory", result |-> result])
         /\ IF run_powershell_script(result) = "RuntimeError"
            THEN AbortScan
            ELSE s_pc' = "months" /\ UNCHANGED exit_code
    /\ UNCHANGED <<scan_baseline, requested, chunks, queried,
                   months_with_entries, any_merged, result_file, file_before,
                   notScan>>

\* Lines 257-266: build_month_ids_from_lcu raises without the elevated flag or
\* without the start anchor; else the window (1 to MaxScanMonths months, here
\* numbered in window order) is cut into chunks.
BuildMonthIds ==
    /\ s_pc = "months"
    /\ IF ~scan_baseline.IsAdmin \/ ~scan_baseline.LcuMonthId
       THEN AbortScan /\ UNCHANGED <<requested, chunks>>
       ELSE \E n \in 1..MaxScanMonths :
              /\ requested' = [i \in 1..n |-> i]
              /\ chunks' = ChunkList([i \in 1..n |-> i], ChunkSize)
              /\ s_pc' = "query"
              /\ UNCHANGED exit_code
    /\ UNCHANGED <<scan_baseline, queried, months_with_entries, any_merged,
                   result_file, file_before, collected, notScan>>

\* One pass of "for chunk in chunk_list(month_ids, 3)" (lines 266-278): the
\* adapter answers with no entries, with entries that bear no identifier, or
\* with entries that do.
QueryChunk ==
    /\ s_pc = "query"
    /\ Len(queried) < Len(chunks)
    /\ LET chunk == chunks[Len(queried) + 1] IN
       \E result \in ProcessResults, entries \in {"none", "unkeyed", "keyed"} :
         /\ collected' = Append(collected, [script |-> "adapter", result |-> result])
         /\ IF run_powershell_script(result) = "RuntimeError"
            THEN AbortScan /\ UNCHANGED <<queried, months_with_entries, any_merged>>
            ELSE /\ queried' = Append(queried, chunk)
                 /\ months_with_entries' =
                      IF entries # "none" THEN months_with_entries \o chunk
                      ELSE months_with_entries
                 /\ any_merged' = (any_merged \/ entries = "keyed")
                 /\ UNCHANGED <<s_pc, exit_code>>
    /\ UNCHANGED <<scan_baseline, requested, chunks, result_file, file_before,
                   notScan>>

\* Lines 280-282: nothing merged, sys.exit(0).
NoScanData ==
    /\ s_pc = "query"
    /\ Len(queried) = Len(chunks)
    /\ ~any_merged
    /\ s_pc' = "exit"
    /\ exit_code' = <<0>>
    /\ UNCHANGED <<scan_baseline, requested, chunks, queried,
                   months_with_entries, any_merged, result_file, file_before,
                   collected, notScan>>

\* Lines 284-334: correlate, report, write the result document, return.
WriteResult ==
    /\ s_pc = "query"
    /\ Len(queried) = Len(chunks)
    /\ any_merged
    /\ result_file' = <<[Run |-> "this",
                         MonthsRequested |-> requested,
                         MonthsWithEntries |-> SortedSeq(Range(months_with_entries))]>>
    /\ s_pc' = "exit"
    /\ exit_code' = <<0>>
    /\ UNCHANGED <<scan_baseline, requested, chunks, queried,
                   months_with_entries, any_merged, file_before, collected,
                   notScan>>

ScanStart ==
    /\ s_pc = "baseline"
    /\ scan_baseline = None
    /\ requested = <<>>
    /\ chunks = <<>>
    /\ queried = <<>>
    /\ months_with_entries = <<>>
    /\ any_merged = FALSE
    /\ file_before \in {<<>>, <<EarlierDocument>>}
    /\ result_file = file_before
    /\ exit_code = None
    /\ collected = <<>>

ScanIdle ==
    /\ s_pc = "idle"
    /\ scan_baseline = None
    /\ requested = <<>>
    /\ chunks = <<>>
    /\ queried = <<>>
    /\ months_with_entries = <<>>
    /\ any_merged = FALSE
    /\ file_before = <<>>
    /\ result_file = <<>>
    /\ exit_code = None
    /\ collected = <<>>

ScanNext ==
    \/ CollectBaseline
    \/ CollectInventory
    \/ BuildMonthIds
    \/ QueryChunk
    \/ NoScanData
    \/ WriteResult

\* ------------------------------------------------------ the specifications

SupInit == SupStart /\ MonthIdle /\ MergeIdle /\ DownIdle /\ ReIdle /\ ScanIdle /\ RunIdle
SupSpec == SupInit /\ [][SupNext]_vars

RecomputeSpec == SupInit /\ [][RecomputeNext]_vars

MonthInit == SupIdle /\ MonthStart /\ MergeIdle /\ DownIdle /\ ReIdle /\ ScanIdle /\ RunIdle
MonthSpec == MonthInit /\ [][MonthNext]_vars

MergeInit == SupIdle /\ MonthIdle /\ MergeStart /\ DownIdle /\ ReIdle /\ ScanIdle /\ RunIdle
MergeSpec == MergeInit /\ [][MergeNext]_vars

ScoreInit == SupIdle /\ MonthIdle /\ MergeIdle /\ ScoreStart /\ ReIdle /\ ScanIdle /\ RunIdle
ScoreSpec == ScoreInit /\ [][ScoreNext]_vars

ChooseInit == SupIdle /\ MonthIdle /\ MergeIdle /\ ChooseStart /\ ReIdle /\ ScanIdle /\ RunIdle
ChooseSpec == ChooseInit /\ [][ChooseNext]_vars

ScanInit ==
    /\ SupIdle /\ MonthIdle /\ MergeIdle /\ DownIdle /\ ReIdle
    /\ ScanStart /\ RunIdle
ScanSpec == ScanInit /\ [][ScanNext]_vars

\* a downloader run starts at the top of main
RunInit ==
    /\ SupIdle /\ MonthIdle /\ MergeIdle /\ ReIdle /\ ScanIdle
    /\ kb_id = ""
    /\ constraints = [windows_gen |-> "", display_version |-> "",
                      build_major |-> "", catalog_arch |-> "x64"]
    /\ candidates = <<>>
    /\ score = 0
    /\ best = None
    /\ reason = None
    /\ d_pc = "load"
    /\ RunStart
RunSpec == RunInit /\ [][RunNext]_vars

\* ------------------------------------------------------------------ claims

\* The supersedes relation R of the records: id -> old.
Edge(a, b) == a \in DOMAIN kb_entries /\ b \in Range(kb_entries[a].Supersedes)

Successors(S) == {b \in KBs : \E a \in S : Edge(a, b)}

RECURSIVE Closure(_)
Closure(S) ==
    IF Successors(S) \subseteq S THEN S ELSE Closure(S \cup Successors(S))

\* identifiers reachable from r by one or more supersedes edges
ReachedFrom(r) == Closure(Successors({r}))

Returned == pc \in {"returned", "correlated", "reported"}

\* C1: when compute_supersedence has returned, LogicalPresenceSet is exactly
\* InstalledSet together with every identifier reachable from an installed
\* identifier by one or more supersedes edges.
C1_ExactClosure ==
    Returned =>
        logical_present =
            installed_kbs \cup UNION {ReachedFrom(r) : r \in installed_kbs}

\* a returned walk in which some identifier is present only transitively
C1_Witness ==
    /\ Returned
    /\ \E k \in logical_present \ installed_kbs :
         \A r \in installed_kbs : ~Edge(r, k)

\* C2: MissingSet shares no identifier with InstalledSet nor with
\* LogicalPresenceSet.
C2_MissingDisjoint ==
    pc \in {"correlated", "reported"} =>
        /\ Range(missing) \cap installed_kbs = {}
        /\ Range(missing) \cap logical_present = {}

\* a correlated run with a missing record and an installed identifier that
\* has no record
C2_Witness ==
    /\ pc = "correlated"
    /\ missing # <<>>
    /\ installed_kbs \ DOMAIN kb_entries # {}
    /\ installed_kbs \cap DOMAIN kb_entries # {}

\* every identifier of the run
Identifiers ==
    DOMAIN kb_entries \cup installed_kbs \cup
    UNION {Range(kb_entries[k].Supersedes) : k \in DOMAIN kb_entries}

\* a measure of the work left, which every step lowers
Variant ==
    CASE pc = "loop" ->
           3 + Cardinality(roots_left) * (2 * MaxKb + 2)
             + (IF stack = <<>> THEN 0
                ELSE 2 * Cardinality(KBs \ seen) + Len(stack))
      [] pc = "returned" -> 2
      [] pc = "correlated" -> 1
      [] OTHER -> 0

C3_Safe ==
    /\ \A k \in KBs : pushes[k] <= 1
    /\ pops <= Cardinality(Identifiers)
    /\ pc = "loop" => ENABLED SupNext
    /\ Returned =>
         \A a, b \in KBs :
            (Edge(a, b) /\ Edge(b, a) /\ a \in installed_kbs)
                => {a, b} \subseteq logical_present

\* C3: the traversal terminates on every relation, cycles and self-loops
\* included: in one root's walk no identifier is pushed more than once, a walk
\* pops at most |V| times, every step lowers the measure of the work left and
\* the loop never blocks; with A and B superseding each other and A installed
\* the result holds both.
C3_Terminates == []C3_Safe /\ [][Variant' < Variant]_vars

\* a returned walk over a two-cycle whose one end alone is installed
C3_Witness ==
    /\ Returned
    /\ \E a, b \in KBs :
         /\ a # b /\ Edge(a, b) /\ Edge(b, a)
         /\ a \in installed_kbs /\ b \notin installed_kbs
         /\ b \in logical_present

\* the installed identifiers from which k is reachable by one or more edges
RootsOf(k) == {r \in installed_kbs : k \in ReachedFrom(r)}

\* C4: the keys of the returned SupersededByMap are exactly the identifiers
\* reachable by at least one edge from an installed identifier, and each value
\* is exactly the set of installed identifiers it is reachable from.
C4_SupersededByExact ==
    Returned =>
        /\ DOMAIN ret_superseded_by = {k \in KBs : RootsOf(k) # {}}
        /\ \A k \in DOMAIN ret_superseded_by :
             /\ Range(ret_superseded_by[k]) = RootsOf(k)
             /\ Len(ret_superseded_by[k]) = Cardinality(RootsOf(k))

\* an identifier attributed to two roots, one of them reaching it through
\* another identifier
C4_Witness ==
    /\ Returned
    /\ \E k \in DOMAIN ret_superseded_by :
         /\ Len(ret_superseded_by[k]) >= 2
         /\ \E r \in Range(ret_superseded_by[k]) : ~Edge(r, k)

\* the months from index s on, as the calendar counts them
MonthIndex(id) == id[1] * 12 + (CHOOSE m \in 1..12 : MonthAbbr[m] = id[2]) - 1
MonthAt(i) == <<i \div 12, MonthAbbr[(i % 12) + 1]>>
MinNat(a, b) == IF a <= b THEN a ELSE b
EndIndex ==
    IF baseline.MsrcLatestMonthId # None
    THEN MonthIndex(baseline.MsrcLatestMonthId)
    ELSE clock \div 2
StartIndex == MonthIndex(baseline.LcuMonthId)

\* C5: with the elevated flag and a start anchor the result is the first
\* min(N, k) months of the consecutive run from start to end inclusive, and
\* exactly [end] when start is after end.
C5_MonthWindow ==
    m_pc = "done" =>
        IF StartIndex > EndIndex
        THEN month_ids = <<MonthAt(EndIndex)>>
        ELSE month_ids =
               [i \in 1..MinNat(max_months, EndIndex - StartIndex + 1)
                   |-> MonthAt(StartIndex + i - 1)]

\* a window that crosses a year boundary and is cut by max_months
C5_Witness ==
    /\ m_pc = "done"
    /\ Len(month_ids) = max_months
    /\ Len(month_ids) < EndIndex - StartIndex + 1
    /\ month_ids[1][1] < month_ids[Len(month_ids)][1]

\* the values fed for one field of one identifier that count
Kept(S, keep_falsy) == IF keep_falsy THEN S ELSE S \ {0}

NoDuplicates(list) == Len(list) = Cardinality(Range(list))

FinalizedAs(keep_falsy) ==
    g_pc = "finalized" =>
        /\ DOMAIN final_entries = DOMAIN fed
        /\ \A k \in DOMAIN final_entries :
             LET e == final_entries[k] IN
             /\ e.KB = k
             /\ Range(e.Months) = Kept(fed[k].Months, keep_falsy)
             /\ Range(e.Cves) = Kept(fed[k].Cves, keep_falsy)
             /\ Range(e.Supersedes) = Kept(fed[k].Supersedes, keep_falsy)
             /\ NoDuplicates(e.Months)
             /\ NoDuplicates(e.Cves)
             /\ NoDuplicates(e.Supersedes)
             /\ (e.UpdateType = "Superseding") = (Kept(fed[k].Supersedes, keep_falsy) # {})
             /\ e.UpdateType \in {"Superseding", "Standalone"}

\* values accumulated for an identifier stay, through merges and finalization
NothingRemoved ==
    /\ DOMAIN merged \subseteq DOMAIN merged'
    /\ \A k \in DOMAIN merged :
         /\ Range(merged[k].Months) \subseteq Range(merged'[k].Months)
         /\ Range(merged[k].Cves) \subseteq Range(merged'[k].Cves)
         /\ Range(merged[k].Supersedes) \subseteq Range(merged'[k].Supersedes)
    /\ g_pc' = "finalized" =>
         \A k \in DOMAIN merged :
            /\ Range(merged[k].Months) \subseteq Range(final_entries'[k].Months)
            /\ Range(merged[k].Cves) \subseteq Range(final_entries'[k].Cves)
            /\ Range(merged[k].Supersedes)
                  \subseteq Range(final_entries'[k].Supersedes)

\* C6 as stated: each finalized field is the duplicate-free union of all the
\* values of the partial records of its identifier, whatever the order and
\* the repetitions.
C6_UnionOfAllValues == FinalizedAs(TRUE)

\* C6, amended: each finalized field is the duplicate-free union of the
\* non-empty values of the partial records of its identifier, whatever the
\* order and the repetitions; no accumulated value is ever removed; the type
\* is Superseding exactly when that superseded-set is non-empty.
C6_UnionOfTruthyValues == []FinalizedAs(FALSE) /\ [][NothingRemoved]_vars

\* a finalized record built from two partial records that each brought a
\* value the other lacked, and an empty value among them
C6_Witness ==
    /\ g_pc = "finalized"
    /\ merges = 2
    /\ \E k \in DOMAIN final_entries :
         /\ Len(final_entries[k].Months) = 2
         /\ 0 \in fed[k].Months
         /\ final_entries[k].UpdateType = "Superseding"

\* the architecture markers that speak for an architecture tag
MatchingMarkers(arch) ==
    CASE arch = "x64" -> {"x64-based"}
      [] arch = "arm64" -> {"arm64-based"}
      [] arch = "x86" -> {"x86-based", "32-bit"}

AllMarkers == {"x64-based", "arm64-based", "x86-based", "32-bit"}

OtherGeneration(gen) == IF gen = "windows 10" THEN "windows 11" ELSE "windows 10"

\* the hard exclusions of the scorer, as the design states them
HardExclusion(t, target, c) ==
    LET words == TitleWords(t) IN
    \/ Lower(target) \notin words
    \/ c.windows_gen # "" /\ OtherGeneration(c.windows_gen) \in words
    \/ c.windows_gen # "" /\ "server" \in words
    \/ words \cap (AllMarkers \ MatchingMarkers(c.catalog_arch)) # {}

\* C7: a hard exclusion dominates: the score is exactly -10000 whenever the
\* target is absent from the title, the other generation's label is in it, a
\* generation is known and the title has a server marker, or the title bears a
\* competing architecture marker, whatever matching evidence is also there.
C7_ExclusionDominates ==
    d_pc = "scored" =>
        (HardExclusion(candidates[1].title, kb_id, constraints)
            => score = Excluded)

\* a title with the target, the matching generation, architecture marker,
\* display version and build number, excluded by its server marker alone
C7_Witness ==
    /\ d_pc = "scored"
    /\ score = Excluded
    /\ LET t == candidates[1].title
           words == TitleWords(t)
       IN /\ Lower(kb_id) \in words
          /\ constraints.windows_gen \in words
          /\ OtherGeneration(constraints.windows_gen) \notin words
          /\ words \cap AllMarkers = MatchingMarkers(constraints.catalog_arch)
          /\ constraints.display_version # ""
          /\ Lower(constraints.display_version) \in words
          /\ constraints.build_major # ""
          /\ t.build = constraints.build_major
          /\ t.server

ScoreOf(cand) == score_candidate(cand.title, kb_id, constraints)

\* the highest score among the candidates (only used when there is one)
TopScore ==
    CHOOSE m \in {ScoreOf(candidates[i]) : i \in DOMAIN candidates} :
        \A i \in DOMAIN candidates : ScoreOf(candidates[i]) <= m

\* C8: a returned candidate scores at least 90, no candidate of the list
\* scores higher, and it is the first in catalog order among those sharing
\* the top score.
C8_BestIsFirstTop ==
    (d_pc = "chosen" /\ best # None) =>
        /\ \E i \in DOMAIN candidates : candidates[i] = best
        /\ ScoreOf(best) >= 90
        /\ \A i \in DOMAIN candidates : ScoreOf(candidates[i]) <= ScoreOf(best)
        /\ \A i \in DOMAIN candidates :
             ScoreOf(candidates[i]) = ScoreOf(best) => best.update_id <= i

\* two different titles share the top score and the first one is returned
C8_Witness ==
    /\ d_pc = "chosen"
    /\ best # None
    /\ Len(candidates) = 2
    /\ candidates[1].title # candidates[2].title
    /\ ScoreOf(candidates[1]) = ScoreOf(candidates[2])
    /\ best = candidates[1]

\* C9: NoMatch exactly when the list is empty or every candidate scores below
\* 0; AmbiguousMatch, carrying the highest score, exactly when some candidate
\* scores 0 or more and the highest score is below 90; no candidate is
\* returned with either, and otherwise a candidate is returned with no reason.
C9_FailureReasons ==
    d_pc = "chosen" =>
        LET none_left == \A i \in DOMAIN candidates : ScoreOf(candidates[i]) < 0
        IN /\ (reason = <<"NoMatch">>) = none_left
           /\ (reason # None /\ reason # <<"NoMatch">>) =
                (~none_left /\ TopScore < 90)
           /\ (~none_left /\ TopScore < 90) =>
                reason = <<"AmbiguousMatch", TopScore>>
           /\ (reason # None) = (best = None)

\* two candidates tie below the threshold: AmbiguousMatch with their score
C9_Witness ==
    /\ d_pc = "chosen"
    /\ Len(candidates) = 2
    /\ ScoreOf(candidates[1]) = ScoreOf(candidates[2])
    /\ ScoreOf(candidates[1]) >= 0
    /\ reason = <<"AmbiguousMatch", ScoreOf(candidates[1])>>
    /\ best = None

\* the identifiers the report covers
Reported == DOMAIN kb_entries \cup installed_kbs \cup logical_present

\* C10: the report gives every identifier of (records, InstalledSet,
\* LogicalPresenceSet) exactly one row, whose status is Installed if it is
\* installed, else Superseded if it is logically present, else Missing, and
\* whose type is Unmapped exactly when it has no record.
C10_StatusPrecedence ==
    pc = "reported" =>
        /\ {table[i].KB : i \in DOMAIN table} = Reported
        /\ Len(table) = Cardinality(Reported)
        /\ \A i \in DOMAIN table :
             LET row == table[i] IN
             /\ row.Status =
                  (IF row.KB \in installed_kbs THEN "Installed"
                   ELSE IF row.KB \in logical_present THEN "Superseded"
                   ELSE "Missing")
             /\ (row.Type = "Unmapped") = (row.KB \notin DOMAIN kb_entries)
             /\ row.KB \in DOMAIN kb_entries =>
                  row.Type = kb_entries[row.KB].UpdateType

\* a report with an installed identifier that another installed one also
\* supersedes, a superseded one, a missing one, and one without a record
C10_Witness ==
    /\ pc = "reported"
    /\ \E i \in DOMAIN table :
         /\ table[i].Status = "Installed"
         /\ table[i].KB \in DOMAIN ret_superseded_by
         /\ Range(ret_superseded_by[table[i].KB]) \ {table[i].KB} # {}
    /\ \E i \in DOMAIN table : table[i].Status = "Missing"
    /\ \E i \in DOMAIN table : table[i].Type = "Unmapped"

\* C14: score_candidate returns either exactly -10000 or a value from 30 to
\* 150: the soft penalties never push a title that passed the hard exclusions
\* below 0, so the score is negative exactly when a hard exclusion fired.
C14_ScoreRange ==
    d_pc = "scored" =>
        /\ score = Excluded \/ (30 <= score /\ score <= 150)
        /\ (score < 0) = HardExclusion(candidates[1].title, kb_id, constraints)

\* a title that passed every hard exclusion and took both soft penalties
C14_Witness ==
    /\ d_pc = "scored"
    /\ ~HardExclusion(candidates[1].title, kb_id, constraints)
    /\ constraints.display_version # ""
    /\ Lower(constraints.display_version) \notin TitleWords(candidates[1].title)
    /\ HasYearHalf(TitleWords(candidates[1].title))
    /\ constraints.build_major # ""
    /\ candidates[1].title.build \notin {"", constraints.build_major}
    /\ score = 30

\* C11: a second call of compute_supersedence on the same records and the
\* same InstalledSet, taking the roots and the superseded neighbours in any
\* other order, returns the same LogicalPresenceSet and SupersededByMap.
C11_SameResultAnyOrder ==
    (runs = 2 /\ pc = "returned") =>
        /\ logical_present = first_present
        /\ ret_superseded_by = first_by

\* the second call ended on another root than the first, and some identifier
\* is attributed to two roots
C11_Witness ==
    /\ runs = 2
    /\ pc = "returned"
    /\ root # first_root
    /\ \E k \in DOMAIN ret_superseded_by : Len(ret_superseded_by[k]) >= 2
    /\ logical_present # installed_kbs

\* ------------------------------------------------------------------- C12

\* a collector run that is a failure: non-zero exit, empty or non-JSON output
FailedRun(run) ==
    run.result.returncode # 0 \/ run.result.stdout \in {"", "garbage"}

AnyFailedRun == \E i \in DOMAIN collected : FailedRun(collected[i])

\* the baseline was collected and lacks the elevated flag or the start anchor
InvalidBaseline ==
    /\ scan_baseline # None
    /\ ~scan_baseline.IsAdmin \/ ~scan_baseline.LcuMonthId

RECURSIVE Flatten(_)
Flatten(seqs) ==
    IF seqs = <<>> THEN <<>> ELSE Head(seqs) \o Flatten(Tail(seqs))

AdapterRuns == {i \in DOMAIN collected : collected[i].script = "adapter"}

\* every chunk of the window was queried, in window order, and answered
AllChunksQueried ==
    /\ requested # <<>>
    /\ Flatten(queried) = requested
    /\ \A i \in DOMAIN queried : Len(queried[i]) \in 1..ChunkSize
    /\ Cardinality(AdapterRuns) = Len(queried)
    /\ ~AnyFailedRun

C12_Aborted ==
    /\ s_pc = "exit"
    /\ exit_code # None
    /\ exit_code # <<0>>
    /\ result_file = file_before

C12_Safe ==
    \* a failed collector run is the last thing the stage does
    /\ AnyFailedRun =>
         /\ C12_Aborted
         /\ \A i \in DOMAIN collected : FailedRun(collected[i]) => i = Len(collected)
    \* no chunk is queried on a baseline without the flag or the anchor
    /\ InvalidBaseline =>
         /\ AdapterRuns = {}
         /\ result_file = file_before
         /\ s_pc = "exit" => C12_Aborted
    \* a non-zero exit leaves the result file as it was
    /\ (exit_code # None /\ exit_code # <<0>>) => result_file = file_before
    /\ result_file # file_before => AllChunksQueried /\ ~InvalidBaseline

\* C12: in the scan stage a failed collector run (non-zero exit, empty or
\* non-JSON output, for the baseline, the inventory or a chunk) and a baseline
\* without the elevated flag or the start anchor end the stage with a non-zero
\* exit and the result file untouched; the result file changes only in a step
\* taken after every chunk of the window was queried successfully in order.
C12_FatalAbortsBeforeWrite ==
    /\ []C12_Safe
    /\ [][result_file' # result_file => (AllChunksQueried /\ exit_code' = <<0>>)]_vars

\* the second chunk's adapter exits non-zero after the first chunk brought
\* records: the earlier result file stays as it was
C12_Witness ==
    /\ s_pc = "exit"
    /\ exit_code = <<1>>
    /\ file_before = <<EarlierDocument>>
    /\ result_file = <<EarlierDocument>>
    /\ Len(chunks) = 2
    /\ Len(queried) = 1
    /\ any_merged
    /\ collected[Len(collected)].script = "adapter"
    /\ collected[Len(collected)].result = [returncode |-> 1, stdout |-> "json"]

\* ------------------------------------------------------------------- C13

\* the calls a run may make, in the order it may make them
StepOrder == <<"search", "dialog", "download">>

Called(call) == \E i \in DOMAIN requests : requests[i].call = call

\* a call answered with a status outside 200..299
TransportFailure ==
    \E i \in DOMAIN requests :
        requests[i].status < 200 \/ requests[i].status > 299

\* the operator typed something that is not the number of a listed item
Decimal == <<"1", "2", "3", "4">>
InvalidSelection ==
    /\ raw # None
    /\ ~\E i \in DOMAIN missing_items : i <= Len(Decimal) /\ raw[1] = Decimal[i]

\* the selector refused: NoMatch or AmbiguousMatch
SelectorRefused ==
    /\ reason # None
    /\ reason[1] \in {"NoMatch", "AmbiguousMatch"}

C13_Failed ==
    /\ d_pc = "exit"
    /\ return_code # None
    /\ return_code # <<0>>
    /\ downloaded = {}

====
